---- MODULE Spec2Model ----
(***************************************************************************)
(* Bass-hit detection, live vibration and shake export of src/script.js.   *)
(*                                                                         *)
(* Units.  Media time is counted in hundredths of a second, so that        *)
(* MIN_PEAK_INTERVAL (0.12 s) is 12 and MIN_PEAK_INTERVAL / 2 is 6.        *)
(* Bass energy is kept as the band sum bassEnergy of script.js:158, that   *)
(* is the average of script.js:160 times BandBins; "average > c" is        *)
(* "sum > c * BandBins".  A displacement of the export canvas is a         *)
(* numerator over DispDen; a displacement of the live view is what         *)
(* toFixed(2) prints, an integer number of hundredths of a pixel.          *)
(***************************************************************************)
EXTENDS Integers, Sequences, FiniteSets, TLC

\* ------------------------------------------------------------- constants
PEAK_THRESHOLD == 190
MIN_PEAK_INTERVAL == 12
SHAKE_DURATION_MS == 180
VIBRATION_MAX_AMPLITUDE == 2
VIBRATION_ENERGY_THRESHOLD == (PEAK_THRESHOLD * 20) \div 100
VIBRATION_ENERGY_MAX_SCALE == PEAK_THRESHOLD * 1

\* fftSize 2048 gives 1024 bins; at the usual 44100 Hz a bin is 21.5 Hz wide:
\* minBin = floor(20 / 21.5) and maxBin = ceil(140 / 21.5)
MinBin == 0
MaxBin == 7
BandBins == MaxBin - MinBin + 1

\* --------------------------------------------------------------- bounds
\* Math.random() is drawn from {0, 1/RandDen, ..., (RandDen-1)/RandDen}
RandDen == 2
\* export closures (one per click on the download button) alive at a time
MaxExports == 1
\* scheduled invocations of processFrameForDownload of one export
MaxFrameCb == 2

\* media times the player reports; the last one is the duration
Duration == 300
Times == {0, 100, 105, 112, 200, Duration}
\* band sums the analyser delivers: averages 0, 38.125, 190, 200
Energies == {0, 305, 1520, 1600}
Rates == {1, 2}
RafIds == {1, 2}
ExportIds == 1..MaxExports

\* -------------------------------------------------------------- helpers
Abs(x) == IF x < 0 THEN -x ELSE x
Min(a, b) == IF a < b THEN a ELSE b

\* Array.prototype.sort((a, b) => a.time - b.time): stable, ascending by time
RECURSIVE SortDescending(_)
SortDescending(s) ==
    IF s = <<>> THEN <<>>
    ELSE LET rest == SortDescending(Tail(s))
             bigger == SelectSeq(rest, LAMBDA x : x.time >= Head(s).time)
             smaller == SelectSeq(rest, LAMBDA x : x.time < Head(s).time)
         IN bigger \o <<Head(s)>> \o smaller

RECURSIVE SortByTime(_)
SortByTime(s) ==
    IF s = <<>> THEN <<>>
    ELSE LET rest == SortByTime(Tail(s))
             before == SelectSeq(rest, LAMBDA x : x.time < Head(s).time)
             after == SelectSeq(rest, LAMBDA x : x.time >= Head(s).time)
         IN before \o <<Head(s)>> \o after

\* ------------------------------------------------------------ variables
VARIABLES
    src,              \* videoPlayer.src is set (a file was chosen, handlers are installed)
    paused,           \* videoPlayer.paused
    seeking,          \* videoPlayer.seeking
    ended,            \* videoPlayer.ended
    currentTime,      \* videoPlayer.currentTime
    muted,            \* videoPlayer.muted
    playbackRate,     \* videoPlayer.playbackRate
    transform,        \* videoPlayer.style.transform, <<x, y>> in hundredths of a pixel
    newFrame,         \* a frame was presented since the last video-frame callback
    hasRVFC,          \* 'requestVideoFrameCallback' in videoPlayer
    recorderSupported, \* new MediaRecorder(...) takes the mimeType asked for
    metadataPending,  \* a loadedmetadata event is on its way
    playEvent,        \* a play event is on its way
    audioContext,     \* "null", or audioContext.state
    analyser,         \* analyser is set
    resumePending,    \* unresolved audioContext.resume() promises, by the handler that asked
    setupFailed,      \* history: setupAudioProcessing threw for the file now loaded
    bassHits,
    currentBassEnergyForVibration,
    lastPeakTime,
    animationFrameId, \* 0 for null
    rafQueue,         \* scheduled invocations of processFrame, by request id
    staleRaf,         \* history: the requests scheduled before the last file was chosen
    downloadDisabled, \* downloadButton.disabled
    exports,          \* the closures of the download click handler
    onseekedOwner,    \* the export whose handler is videoPlayer.onseeked, 0 for none
    acceptLog,        \* history: the times of the hits of this ledger, as accepted
    lastOp            \* history: the handler that ran last, with what it drew or delivered

player == <<src, paused, seeking, ended, currentTime, muted, playbackRate>>
browser == <<hasRVFC, recorderSupported>>
events == <<metadataPending, playEvent, newFrame, browser>>
audio == <<audioContext, analyser, resumePending, setupFailed>>
detector == <<bassHits, currentBassEnergyForVibration, lastPeakTime, acceptLog>>
loop == <<animationFrameId, rafQueue, staleRaf>>
exporter == <<downloadDisabled, exports, onseekedOwner>>
vars == <<player, events, audio, detector, loop, exporter, transform, lastOp>>

\* what lastOp records of a handler that leaves nothing else to record
Op(name) == [op |-> name]

\* ------------------------------------------------- peak detector (pure)
AverageAbove(sum, c) == sum > c * BandBins

\* a mutant of RateLimitOk: measured from the start of the media
RateLimitOkFromStart(t, last) == t > MIN_PEAK_INTERVAL

\* a mutant of RateLimitOk: the distance from the last peak, in either direction
RateLimitOkEitherWay(t, last) == Abs(t - last) > MIN_PEAK_INTERVAL

RateLimitOkInclusive(t, last) == (t - last) >= MIN_PEAK_INTERVAL

RateLimitOk(t, last) == (t - last) > MIN_PEAK_INTERVAL

AlreadyExists(hits, t) ==
    \E i \in 1..Len(hits) : 2 * Abs(hits[i].time - t) < MIN_PEAK_INTERVAL

AcceptsHitNoDebounce(sum, t, last, hits) == AverageAbove(sum, PEAK_THRESHOLD)

AcceptsHitAtThreshold(sum, t, last, hits) ==
    /\ sum >= PEAK_THRESHOLD * BandBins
    /\ RateLimitOk(t, last)
    /\ ~AlreadyExists(hits, t)

AcceptsHit(sum, t, last, hits) ==
    /\ AverageAbove(sum, PEAK_THRESHOLD)
    /\ RateLimitOk(t, last)
    /\ ~AlreadyExists(hits, t)

NewHit(t) == [time |-> t, shaken |-> FALSE, shakenForDownload |-> "undefined"]

\* the mutant of PushHit: the new hit replaces the ledger
PushHitAlone(hits, t) == <<NewHit(t)>>

PushHit(hits, t) == SortByTime(Append(hits, NewHit(t)))

\* ---------------------------------------------- continuous vibration (pure)
NormDen == (VIBRATION_ENERGY_MAX_SCALE - VIBRATION_ENERGY_THRESHOLD) * BandBins

\* the mutant of NormNum: no Math.min(1, ...)
NormNumUnclamped(sum) ==
    IF AverageAbove(sum, VIBRATION_ENERGY_THRESHOLD)
    THEN sum - VIBRATION_ENERGY_THRESHOLD * BandBins
    ELSE 0

\* normalizedEnergy = NormNum / NormDen
NormNum(sum) ==
    IF AverageAbove(sum, VIBRATION_ENERGY_THRESHOLD)
    THEN Min(NormDen, sum - VIBRATION_ENERGY_THRESHOLD * BandBins)
    ELSE 0

DispDen == RandDen * NormDen

\* (Math.random() - 0.5) * 2 * VIBRATION_MAX_AMPLITUDE * normalizedEnergy, over DispDen
DispNum(k, sum) == (2 * k - RandDen) * VIBRATION_MAX_AMPLITUDE * NormNum(sum)

\* Number.prototype.toFixed(2), in hundredths: nearest, ties away from zero
ToFixed2(num, den) ==
    LET n == (2 * 100 * Abs(num) + den) \div (2 * den)
    IN IF num < 0 THEN -n ELSE n

LiveVibrationIgnoringPause(p, s, sum, kx, ky) ==
    IF s THEN <<0, 0>>
    ELSE IF NormNum(sum) > 0
    THEN <<ToFixed2(DispNum(kx, sum), DispDen), ToFixed2(DispNum(ky, sum), DispDen)>>
    ELSE <<0, 0>>

LiveVibration(p, s, sum, kx, ky) ==
    IF p \/ s THEN <<0, 0>>
    ELSE IF NormNum(sum) > 0
    THEN <<ToFixed2(DispNum(kx, sum), DispDen), ToFixed2(DispNum(ky, sum), DispDen)>>
    ELSE <<0, 0>>

ExportTranslationUnconditional(sum, kx, ky) ==
    <<(2 * kx - RandDen) * VIBRATION_MAX_AMPLITUDE * NormDen,
      (2 * ky - RandDen) * VIBRATION_MAX_AMPLITUDE * NormDen>>

\* the translation processFrameForDownload applies to the canvas, over DispDen
ExportTranslation(sum, kx, ky) ==
    IF NormNum(sum) > 0
    THEN <<DispNum(kx, sum), DispNum(ky, sum)>>
    ELSE <<0, 0>>

RandomDraws == 0..(RandDen - 1)

\* timeWindow of processFrameForDownload, in hundredths of a second
TimeWindow ==
    LET fromDuration == SHAKE_DURATION_MS \div 10
    IN IF fromDuration > 5 THEN fromDuration ELSE 5

\* ------------------------------------------------------ export closures
FreeExport ==
    [used |-> FALSE, originalMuted |-> FALSE, originalTime |-> 0,
     originalPlaybackRate |-> 1, recorder |-> "inactive", stopEvent |-> FALSE,
     play |-> "none", frameCb |-> 0, endedListener |-> FALSE, failed |-> FALSE]

\* a closure nothing can call into any more: its recorder is inactive with no
\* stop event due, its play() promise is settled and no frame callback is scheduled
Dead(x) ==
    /\ x.used
    /\ x.recorder = "inactive"
    /\ ~x.stopEvent
    /\ x.play # "pending"
    /\ x.frameCb = 0

Reap(ex) == [i \in ExportIds |-> IF Dead(ex[i]) THEN FreeExport ELSE ex[i]]

SetExports(ex, owner) ==
    /\ exports' = Reap(ex)
    /\ onseekedOwner' = IF owner # 0 /\ Dead(ex[owner]) THEN 0 ELSE owner

\* mediaRecorder.stop() guarded by mediaRecorder.state === "recording"
StopRecorder(x) ==
    IF x.recorder = "recording"
    THEN [x EXCEPT !.recorder = "inactive", !.stopEvent = TRUE]
    ELSE x

\* requestVideoFrameCallback / requestAnimationFrame (processFrameForDownload)
Schedule(x) == [x EXCEPT !.frameCb = @ + 1]

\* the catch block of the click handler, for every export whose play() rejects
Catch(x) == StopRecorder([x EXCEPT !.play = "settled", !.failed = TRUE])

Rejected(ex) == {i \in ExportIds : ex[i].play = "pending"}

CatchAll(ex) == [i \in ExportIds |-> IF i \in Rejected(ex) THEN Catch(ex[i]) ELSE ex[i]]

LastOf(S) == CHOOSE i \in S : \A j \in S : j <= i

\* ------------------------------------------------------------------ Init
Init ==
    /\ src = FALSE
    /\ paused = TRUE
    /\ seeking = FALSE
    /\ ended = FALSE
    /\ currentTime = 0
    /\ muted = FALSE
    /\ playbackRate = 1
    /\ transform = <<0, 0>>
    /\ newFrame = FALSE
    /\ hasRVFC \in BOOLEAN
    /\ recorderSupported \in BOOLEAN
    /\ metadataPending = FALSE
    /\ playEvent = FALSE
    /\ audioContext = "null"
    /\ analyser = FALSE
    /\ resumePending = {}
    /\ setupFailed = FALSE
    /\ bassHits = <<>>
    /\ currentBassEnergyForVibration = 0
    /\ lastPeakTime = 0
    /\ acceptLog = <<>>
    /\ animationFrameId = 0
    /\ rafQueue = {}
    /\ staleRaf = {}
    /\ downloadDisabled = FALSE
    /\ exports = [i \in ExportIds |-> FreeExport]
    /\ onseekedOwner = 0
    /\ lastOp = Op("other")

\* ------------------------------------------------------- detection loop
\* processFrame, with q the requests still scheduled and off the early-return test
processFrame(q, off) ==
    IF off
    THEN /\ animationFrameId' = 0
         /\ rafQueue' = q
         /\ staleRaf' = staleRaf \cap q
         /\ lastOp' = Op("other")
         /\ UNCHANGED detector
    ELSE /\ \E sum \in Energies :
              IF MaxBin > MinBin
              THEN /\ currentBassEnergyForVibration' = sum
                   /\ IF AcceptsHit(sum, currentTime, lastPeakTime, bassHits)
                      THEN /\ bassHits' = PushHit(bassHits, currentTime)
                           /\ lastPeakTime' = currentTime
                           /\ acceptLog' = Append(acceptLog, currentTime)
                      ELSE UNCHANGED <<bassHits, lastPeakTime, acceptLog>>
              ELSE /\ currentBassEnergyForVibration' = 0
                   /\ UNCHANGED <<bassHits, lastPeakTime, acceptLog>>
         /\ \E id \in RafIds \ q :
              /\ \A other \in RafIds \ q : id <= other
              /\ animationFrameId' = id
              /\ rafQueue' = q \cup {id}
              /\ staleRaf' = staleRaf \cap q
         /\ lastOp' = Op("processFrame")

\* the mutant of analyseAudio: no cancelAnimationFrame
analyseAudioNoCancel(off) == processFrame(rafQueue, off)

\* analyseAudio: cancelAnimationFrame(animationFrameId), then processFrame()
analyseAudio(off) == processFrame(rafQueue \ {animationFrameId}, off)

\* the test of script.js:142 on the current state
DetectionOff == ~analyser \/ paused \/ ended \/ audioContext # "running"

\* the chosen file has loaded: the player answers to its controls and fires events
Loaded == src /\ ~metadataPending

\* a scheduled processFrame runs
AnimationFrame(id) ==
    /\ id \in rafQueue
    /\ processFrame(rafQueue \ {id}, DetectionOff)
    /\ UNCHANGED <<player, events, audio, exporter, transform>>

\* applyLiveVibration, called by ontimeupdate through triggerShakeForCurrentTime
applyLiveVibration(p, s) ==
    \E kx, ky \in RandomDraws :
        transform' = LiveVibration(p, s, currentBassEnergyForVibration, kx, ky)

\* videoPlayer.ontimeupdate
TimeUpdate ==
    /\ Loaded
    /\ applyLiveVibration(paused, seeking)
    /\ lastOp' = Op("timeupdate")
    /\ UNCHANGED <<player, events, audio, detector, loop, exporter>>

\* ------------------------------------------------------ player and files
\* assigning videoPlayer.currentTime starts a seek
SetCurrentTime(t) ==
    /\ currentTime' = t
    /\ seeking' = TRUE
    /\ ended' = (t = Duration)

\* every pending play() promise rejects and its catch block runs
RejectPlay ==
    LET R == Rejected(exports)
    IN IF R = {}
       THEN UNCHANGED <<muted, downloadDisabled, exports, onseekedOwner>>
       ELSE /\ muted' = exports[LastOf(R)].originalMuted
            /\ downloadDisabled' = FALSE
            /\ SetExports(CatchAll(exports), onseekedOwner)

\* the mutant of NewLedger: the hits of the file before are kept
KeptLedger == bassHits

\* bassHits = [] of the change handler
NewLedger == <<>>

\* videoUpload 'change' with a file chosen; the element loads the new source
FileChange ==
    /\ src' = TRUE
    /\ bassHits' = NewLedger
    /\ lastPeakTime' = 0
    /\ acceptLog' = <<>>
    /\ paused' = TRUE
    /\ seeking' = FALSE
    /\ ended' = FALSE
    /\ currentTime' = 0
    /\ playbackRate' = 1
    /\ metadataPending' = TRUE
    /\ playEvent' = FALSE
    /\ newFrame' = FALSE
    /\ RejectPlay
    /\ staleRaf' = rafQueue
    /\ setupFailed' = FALSE
    /\ lastOp' = [op |-> "change", discarded |-> Len(bassHits)]
    /\ UNCHANGED <<browser, audioContext, analyser, resumePending,
                   currentBassEnergyForVibration, animationFrameId, rafQueue,
                   transform>>

\* videoPlayer.onloadedmetadata: setupAudioProcessing
LoadedMetadata ==
    /\ metadataPending
    /\ metadataPending' = FALSE
    /\ audioContext' \in {"suspended", "running"}
    /\ \E attached \in BOOLEAN :
         /\ analyser' = IF attached THEN TRUE ELSE analyser
         /\ setupFailed' = ~attached
    /\ resumePending' = {}
    /\ lastOp' = Op("other")
    /\ UNCHANGED <<player, playEvent, newFrame, browser, detector, loop,
                   exporter, transform>>

\* videoPlayer.oncanplay
CanPlay ==
    /\ Loaded
    /\ audioContext = "suspended"
    /\ "canplay" \notin resumePending
    /\ resumePending' = resumePending \cup {"canplay"}
    /\ lastOp' = Op("other")
    /\ UNCHANGED <<player, events, audioContext, analyser, setupFailed, detector, loop,
                   exporter, transform>>

\* audioContext.resume() resolves and its .then callback runs
ResumeResolved(k) ==
    /\ k \in resumePending
    /\ resumePending' = resumePending \ {k}
    /\ audioContext' = "running"
    /\ IF k = "play"
       THEN analyseAudio(~analyser \/ paused \/ ended)
       ELSE UNCHANGED <<detector, loop>> /\ lastOp' = Op("other")
    /\ UNCHANGED <<player, events, analyser, setupFailed, exporter, transform>>

\* the user starts playback
Play ==
    /\ Loaded
    /\ paused
    /\ paused' = FALSE
    /\ IF ended THEN SetCurrentTime(0) ELSE UNCHANGED <<currentTime, seeking, ended>>
    /\ playEvent' = TRUE
    /\ lastOp' = Op("other")
    /\ UNCHANGED <<src, muted, playbackRate, metadataPending, newFrame, browser,
                   audio, detector, loop, exporter, transform>>

\* videoPlayer.onplay
OnPlay ==
    /\ playEvent
    /\ playEvent' = FALSE
    /\ IF audioContext = "suspended"
       THEN /\ resumePending' = resumePending \cup {"play"}
            /\ lastOp' = Op("other")
            /\ UNCHANGED <<detector, loop>>
       ELSE IF audioContext = "running"
       THEN analyseAudio(DetectionOff) /\ UNCHANGED resumePending
       ELSE UNCHANGED <<resumePending, detector, loop>> /\ lastOp' = Op("other")
    /\ UNCHANGED <<player, metadataPending, newFrame, browser, audioContext,
                   analyser, setupFailed, exporter, transform>>

\* playback is paused from outside; a play() still pending rejects
Pause ==
    /\ Loaded
    /\ ~paused
    /\ paused' = TRUE
    /\ RejectPlay
    /\ lastOp' = IF Rejected(exports) = {} THEN Op("other") ELSE Op("catch")
    /\ UNCHANGED <<src, seeking, ended, currentTime, playbackRate, events, audio,
                   detector, loop, transform>>

\* the user seeks
Seek(t) ==
    /\ Loaded
    /\ SetCurrentTime(t)
    /\ lastOp' = Op("other")
    /\ UNCHANGED <<src, paused, muted, playbackRate, events, audio, detector,
                   loop, exporter, transform>>

\* a seek completes: seeked (videoPlayer.onseeked of the last export); the
\* timeupdate event queued with it is a TimeUpdate step of its own
Seeked ==
    /\ seeking
    /\ seeking' = FALSE
    /\ LET o == onseekedOwner
           starts == o # 0 /\ currentTime = 0 /\ exports[o].recorder = "recording"
       IN /\ starts => exports[o].frameCb < MaxFrameCb
          /\ SetExports(IF starts THEN [exports EXCEPT ![o] = Schedule(@)] ELSE exports, o)
    /\ newFrame' = (hasRVFC /\ \E i \in ExportIds : exports'[i].frameCb > 0)
    /\ lastOp' = Op("other")
    /\ UNCHANGED <<src, paused, ended, currentTime, muted, playbackRate,
                   metadataPending, playEvent, browser, audio, detector, loop,
                   downloadDisabled, transform>>

Playing == Loaded /\ ~paused /\ ~seeking /\ Rejected(exports) = {}

\* playback moves on
TimeAdvance(t) ==
    /\ Playing
    /\ ~ended
    /\ t > currentTime
    /\ t # Duration
    /\ currentTime' = t
    /\ lastOp' = Op("other")
    /\ UNCHANGED <<src, paused, seeking, ended, muted, playbackRate, events,
                   audio, detector, loop, exporter, transform>>

\* playback reaches the end: the player pauses and fires ended at its listeners
\* (videoPlayer.onended only fills the list; onVideoEndedForDownload of every
\* export); the timeupdate event fired just before is a TimeUpdate step of its own
EndOfMedia ==
    /\ Playing
    /\ currentTime' = Duration
    /\ ended' = TRUE
    /\ paused' = TRUE
    /\ SetExports([i \in ExportIds |->
                     IF exports[i].endedListener
                     THEN [StopRecorder(exports[i]) EXCEPT !.endedListener = FALSE]
                     ELSE exports[i]], onseekedOwner)
    /\ lastOp' = Op("other")
    /\ UNCHANGED <<src, seeking, muted, playbackRate, events, audio, detector,
                   loop, downloadDisabled, transform>>

\* ---------------------------------------------------------------- export
FreeIds == {i \in ExportIds : ~exports[i].used}

ResetShakenForDownload(hits) ==
    [n \in 1..Len(hits) |-> [hits[n] EXCEPT !.shakenForDownload = "false"]]

\* the click handler of downloadButton up to its await; new MediaRecorder(...)
\* throws for a mimeType the browser does not record, and the handler ends there
ClickDownload ==
    /\ ~downloadDisabled
    /\ IF ~src \/ Len(bassHits) = 0
       THEN /\ lastOp' = Op("other")
            /\ UNCHANGED <<player, events, detector, exporter>>
       ELSE /\ downloadDisabled' = TRUE
            /\ muted' = TRUE
            /\ SetCurrentTime(0)
            /\ playbackRate' = 1
            /\ IF ~recorderSupported
                 THEN /\ lastOp' = Op("other")
                      /\ UNCHANGED <<src, paused, events, detector, exports,
                                     onseekedOwner>>
                 ELSE /\ \E i \in FreeIds :
                           /\ \A j \in FreeIds : i <= j
                           /\ exports' = [exports EXCEPT ![i] =
                                [used |-> TRUE, originalMuted |-> muted,
                                 originalTime |-> currentTime,
                                 originalPlaybackRate |-> playbackRate,
                                 recorder |-> "recording", stopEvent |-> FALSE,
                                 play |-> "pending", frameCb |-> 0,
                                 endedListener |-> TRUE, failed |-> FALSE]]
                           /\ onseekedOwner' = i
                      /\ bassHits' = ResetShakenForDownload(bassHits)
                      /\ paused' = FALSE
                      /\ playEvent' = (playEvent \/ paused)
                      /\ lastOp' = Op("click")
                      /\ UNCHANGED <<src, metadataPending, newFrame, browser,
                                     currentBassEnergyForVibration, lastPeakTime,
                                     acceptLog>>
    /\ UNCHANGED <<audio, loop, transform>>

\* await videoPlayer.play() resolves: playback has started
PlayResolved(i) ==
    /\ exports[i].play = "pending"
    /\ ~paused
    /\ LET x == [exports[i] EXCEPT !.play = "settled"]
           kick == currentTime = 0 /\ x.recorder = "recording"
       IN /\ kick => x.frameCb < MaxFrameCb
          /\ SetExports([exports EXCEPT ![i] = IF kick THEN Schedule(x) ELSE x],
                        onseekedOwner)
    /\ lastOp' = Op("other")
    /\ UNCHANGED <<player, events, audio, detector, loop, downloadDisabled, transform>>

\* a video frame (with requestVideoFrameCallback: only while frames are presented)
\* or an animation frame runs the scheduled processFrameForDownload callbacks
FrameDue == hasRVFC => ((~paused /\ ~ended) \/ newFrame)

Scheduled == {i \in ExportIds : exports[i].frameCb > 0}

\* every callback scheduled for the frame runs in it: on a paused or ended video
\* each stops its recorder and returns, otherwise each draws and schedules itself
ExportFrame ==
    /\ Scheduled # {}
    /\ FrameDue
    /\ newFrame' = FALSE
    /\ IF paused \/ ended
       THEN /\ SetExports([i \in ExportIds |->
                             IF i \in Scheduled
                             THEN [StopRecorder(exports[i]) EXCEPT !.frameCb = 0]
                             ELSE exports[i]], onseekedOwner)
            /\ lastOp' = Op("other")
       ELSE /\ \E i \in Scheduled : \E kx, ky \in RandomDraws :
                 lastOp' = [op |-> "exportFrame",
                            recording |-> exports[i].recorder = "recording",
                            translation |-> ExportTranslation(
                                currentBassEnergyForVibration, kx, ky)]
            /\ UNCHANGED <<exports, onseekedOwner>>
    /\ UNCHANGED <<player, metadataPending, playEvent, browser, audio, detector,
                   loop, downloadDisabled, transform>>

\* mediaRecorder.onerror; whether a stop event follows is the recorder's business
RecorderError(i) ==
    /\ exports[i].recorder = "recording"
    /\ muted' = exports[i].originalMuted
    /\ SetCurrentTime(exports[i].originalTime)
    /\ playbackRate' = exports[i].originalPlaybackRate
    /\ downloadDisabled' = FALSE
    /\ \E stops \in BOOLEAN :
         SetExports([exports EXCEPT ![i] =
                       [@ EXCEPT !.recorder = "inactive", !.failed = TRUE,
                                 !.stopEvent = stops]], onseekedOwner)
    /\ lastOp' = Op("onerror")
    /\ UNCHANGED <<src, paused, events, audio, detector, loop, transform>>

\* mediaRecorder.onstop
RecorderStop(i) ==
    /\ exports[i].stopEvent
    /\ muted' = exports[i].originalMuted
    /\ SetCurrentTime(exports[i].originalTime)
    /\ playbackRate' = exports[i].originalPlaybackRate
    /\ downloadDisabled' = FALSE
    /\ SetExports([exports EXCEPT ![i] = [@ EXCEPT !.stopEvent = FALSE]],
                  onseekedOwner)
    /\ lastOp' = [op |-> "onstop", failed |-> exports[i].failed]
    /\ UNCHANGED <<src, paused, events, audio, detector, loop,
                   transform>>

\* ----------------------------------------------------------- live playback
(***************************************************************************)
(* Spec: a session of loading files and playing them, with the detection   *)
(* loop and the live vibration.  The download button is left alone here:   *)
(* what its handlers do to the player (seek to 0, play, seek back, pause)  *)
(* the steps Seek, Play and Pause do as well, and they write neither the   *)
(* hit times, lastPeakTime, the stored energy nor style.transform.         *)
(***************************************************************************)
Next ==
    \/ FileChange
    \/ LoadedMetadata
    \/ CanPlay
    \/ \E k \in {"canplay", "play"} : ResumeResolved(k)
    \/ Play
    \/ OnPlay
    \/ Pause
    \/ \E t \in Times : Seek(t)
    \/ Seeked
    \/ \E t \in Times : TimeAdvance(t)
    \/ EndOfMedia
    \/ TimeUpdate
    \/ \E id \in RafIds : AnimationFrame(id)

Spec == Init /\ [][Next]_vars

\* ------------------------------------------------------------------ export
(***************************************************************************)
(* ExportSpec: the download button.  It starts where a live session leaves *)
(* the page once the file has played to its end with one hit detected at   *)
(* 2.0 s: the audio context runs, the detection loop has stopped, and the  *)
(* user may have muted the player or changed its speed.  Detection goes on *)
(* during an export (onplay calls analyseAudio).  style.transform is       *)
(* written by TimeUpdate only and read by nothing, so TimeUpdate is left   *)
(* out, as are the file and audio-context steps; the mute flag and the     *)
(* speed are any the user left before the first click.                     *)
(***************************************************************************)
ExportInit ==
    /\ src = TRUE
    /\ paused = TRUE
    /\ seeking = FALSE
    /\ ended = TRUE
    /\ currentTime = Duration
    /\ muted \in BOOLEAN
    /\ playbackRate \in Rates
    /\ transform = <<0, 0>>
    /\ newFrame = FALSE
    /\ hasRVFC \in BOOLEAN
    /\ recorderSupported \in BOOLEAN
    /\ metadataPending = FALSE
    /\ playEvent = FALSE
    /\ audioContext = "running"
    /\ analyser = TRUE
    /\ resumePending = {}
    /\ setupFailed = FALSE
    /\ bassHits = <<NewHit(200)>>
    /\ currentBassEnergyForVibration = 0
    /\ lastPeakTime = 200
    /\ acceptLog = <<200>>
    /\ animationFrameId = 0
    /\ rafQueue = {}
    /\ staleRaf = {}
    /\ downloadDisabled = FALSE
    /\ exports = [i \in ExportIds |-> FreeExport]
    /\ onseekedOwner = 0
    /\ lastOp = Op("other")

\* where the user seeks to and playback is looked at during an export
ExportTimes == {0, 200}

ExportNext ==
    \/ Play
    \/ OnPlay
    \/ Pause
    \/ \E t \in ExportTimes : Seek(t)
    \/ Seeked
    \/ \E t \in ExportTimes : TimeAdvance(t)
    \/ EndOfMedia
    \/ \E id \in RafIds : AnimationFrame(id)
    \/ ClickDownload
    \/ \E i \in ExportIds : PlayResolved(i)
    \/ ExportFrame
    \/ \E i \in ExportIds : RecorderError(i)
    \/ \E i \in ExportIds : RecorderStop(i)

ExportSpec == ExportInit /\ [][ExportNext]_vars

\* the same, with the scheduling the browser guarantees: a callback that is due
\* runs, a queued event is dispatched, a settled promise continues, and playback
\* left alone reaches the end.  What the user does is under no obligation.
ExportFair ==
    /\ ExportSpec
    /\ WF_vars(ExportFrame)
    /\ \A i \in ExportIds : WF_vars(RecorderStop(i))
    /\ \A i \in ExportIds : WF_vars(PlayResolved(i))
    /\ \A id \in RafIds : WF_vars(AnimationFrame(id))
    /\ WF_vars(OnPlay)
    /\ WF_vars(Seeked)
    /\ WF_vars(EndOfMedia)

\* ================================================================ claims
HitTimes == [n \in 1..Len(bassHits) |-> bassHits[n].time]

PeakEnergy == AverageAbove(currentBassEnergyForVibration, PEAK_THRESHOLD)

VibrationEnergy == AverageAbove(currentBassEnergyForVibration, VIBRATION_ENERGY_THRESHOLD)

(* C1: within one ledger (from a file load on), any two hits the peak detector *)
(* accepts one after the other have times more than MIN_PEAK_INTERVAL apart,   *)
(* the later accepted one being the later in time, whatever seeks and replays  *)
(* came between; so a hit at 1.05 is never accepted right after one at 1.0.    *)
C1_ConsecutiveHitsApart ==
    \A n \in 1..(Len(acceptLog) - 1) :
        acceptLog[n + 1] - acceptLog[n] > MIN_PEAK_INTERVAL

\* a poll has just accepted a second hit
C1_Witness ==
    /\ lastOp.op = "processFrame"
    /\ Len(acceptLog) >= 2
    /\ acceptLog[Len(acceptLog)] = currentTime

(* C2: no two distinct entries of bassHits have times within                  *)
(* MIN_PEAK_INTERVAL / 2 of each other.                                       *)
C2_NoNearDuplicates ==
    \A m, n \in 1..Len(bassHits) :
        m # n => 2 * Abs(bassHits[m].time - bassHits[n].time) >= MIN_PEAK_INTERVAL

\* a ledger of several hits
C2_Witness == Len(bassHits) >= 2 /\ PeakEnergy

(* C3: bassHits is sorted ascending by time in every state, also after the    *)
(* player's time has jumped backward.                                         *)
C3_LedgerSorted ==
    \A m, n \in 1..Len(bassHits) :
        m < n => bassHits[m].time <= bassHits[n].time

\* a poll ran on a ledger of several hits with the time behind the last hit
C3_Witness ==
    /\ lastOp.op = "processFrame"
    /\ Len(bassHits) >= 2
    /\ currentTime < lastPeakTime

(* C4: a poll (a run of processFrame past its early return) whose average     *)
(* energy is at most PEAK_THRESHOLD leaves bassHits as it was.                *)
C4_NoHitAtOrBelowThreshold ==
    [][(lastOp'.op = "processFrame"
        /\ ~AverageAbove(currentBassEnergyForVibration', PEAK_THRESHOLD))
       => bassHits' = bassHits]_vars

\* a poll with energy exactly at the threshold, at a time the debounce tests let pass
C4_Witness ==
    /\ lastOp.op = "processFrame"
    /\ currentBassEnergyForVibration = PEAK_THRESHOLD * BandBins
    /\ RateLimitOk(currentTime, lastPeakTime)
    /\ ~AlreadyExists(bassHits, currentTime)

(* C5: when ontimeupdate has run applyLiveVibration, the displacement of the  *)
(* video is (0,0) if the stored energy is at most                             *)
(* VIBRATION_ENERGY_THRESHOLD, or the video is paused, or it is seeking.      *)
C5_NoVibrationWhenQuietPausedOrSeeking ==
    (lastOp.op = "timeupdate" /\ (~VibrationEnergy \/ paused \/ seeking))
        => transform = <<0, 0>>

\* ontimeupdate ran on a paused video with a stale energy above the peak threshold
C5_Witness ==
    /\ lastOp.op = "timeupdate"
    /\ paused
    /\ ~seeking
    /\ PeakEnergy
    /\ transform = <<0, 0>>

\* what applyLiveVibration can set, and what processFrameForDownload can apply
LiveOutcomes ==
    {LiveVibration(paused, seeking, currentBassEnergyForVibration, kx, ky) :
        kx \in RandomDraws, ky \in RandomDraws}

ExportOutcomes ==
    {ExportTranslation(currentBassEnergyForVibration, kx, ky) :
        kx \in RandomDraws, ky \in RandomDraws}

(* C6: when processFrameForDownload has drawn a frame, the frame is bound to  *)
(* carry the identity transform if and only if applyLiveVibration, run on the *)
(* same stored energy, paused flag and seeking flag, is bound to set (0,0).   *)
C6_ExportParity ==
    lastOp.op = "exportFrame"
        => ((ExportOutcomes = {<<0, 0>>}) <=> (LiveOutcomes = {<<0, 0>>}))

(* C7 as stated: with the single hit at 2.0 in the ledger, a recorded frame   *)
(* carries a nonzero transform if and only if its time is in [2.0, 2.18).     *)
C7_ShakeOnlyInHitWindow ==
    (lastOp.op = "exportFrame" /\ lastOp.recording /\ HitTimes = <<200>>)
        => ((lastOp.translation # <<0, 0>>)
              <=> (currentTime >= 200 /\ currentTime < 200 + TimeWindow))

(* C7 amended: with the single hit at 2.0 in the ledger, a recorded frame     *)
(* carries a nonzero transform only if the stored energy is above             *)
(* VIBRATION_ENERGY_THRESHOLD, inside the hit's window as outside it.         *)
C7_ShakeOnlyAboveEnergyThreshold ==
    (lastOp.op = "exportFrame" /\ lastOp.recording /\ HitTimes = <<200>>)
        => (lastOp.translation = <<0, 0>> \/ VibrationEnergy)

\* a frame recorded at the time of the hit, with no energy, carries the identity
C7_Witness ==
    /\ lastOp.op = "exportFrame"
    /\ lastOp.recording
    /\ HitTimes = <<200>>
    /\ currentTime = 200
    /\ ~VibrationEnergy
    /\ lastOp.translation = <<0, 0>>

(* C8: a step that enables the download button again (the export is over)     *)
(* leaves the mute flag, the position and the speed at the values the export  *)
(* saved when it started.                                                     *)
C8_RestoredWhenIdleAgain ==
    [][(downloadDisabled /\ ~downloadDisabled')
       => \E i \in ExportIds :
            /\ exports[i].used
            /\ muted' = exports[i].originalMuted
            /\ currentTime' = exports[i].originalTime
            /\ playbackRate' = exports[i].originalPlaybackRate]_vars

(* C9: onstop never delivers a file for an export that failed (its recorder   *)
(* reported an error, or its play() was rejected).                            *)
C9_NoArtifactAfterFailure == ~(lastOp.op = "onstop" /\ lastOp.failed)

Recording == \E i \in ExportIds : exports[i].recorder = "recording"

IdleNoCallbacks ==
    /\ ~downloadDisabled
    /\ \A i \in ExportIds : exports[i].recorder # "recording" /\ exports[i].frameCb = 0

(* C10: whenever an export is recording and playback is paused (by the user,  *)
(* or at the end) and stays so, the pipeline is eventually back in Idle with  *)
(* the recorder stopped and no processFrameForDownload left scheduled.        *)
C10_PausedExportReachesIdle ==
    []((Recording /\ []paused) => <>IdleNoCallbacks)

(* C11: right after the change handler has run, bassHits is empty and         *)
(* lastPeakTime is 0; and in every state the ledger holds exactly the hits    *)
(* accepted since the last file was chosen, none of a file before.            *)
C11_FileLoadDiscardsLedger ==
    /\ lastOp.op = "change" => (bassHits = <<>> /\ lastPeakTime = 0)
    /\ Len(bassHits) = Len(acceptLog)
    /\ \A n \in 1..Len(bassHits) : \E k \in 1..Len(acceptLog) : bassHits[n].time = acceptLog[k]

\* a file was chosen while the ledger held hits of the file before
C11_Witness ==
    /\ lastOp.op = "change"
    /\ lastOp.discarded > 0
    /\ bassHits = <<>>
    /\ lastPeakTime = 0

(* C12: a processFrame callback that was scheduled before the last file was   *)
(* chosen never runs a detection step when it is called: it appends no hit    *)
(* and leaves lastPeakTime alone.                                             *)
C12_StaleCallbackNeverPolls ==
    [][\A id \in staleRaf :
          AnimationFrame(id) => /\ lastOp'.op # "processFrame"
                                /\ bassHits' = bassHits
                                /\ lastPeakTime' = lastPeakTime]_vars

\* an export of a video whose detection pass stopped at its one hit: the export
\* plays on past it, to a time the detector has not polled yet
LaterTimes == {0, 250}

ExportLaterNext ==
    \/ Play
    \/ OnPlay
    \/ Pause
    \/ \E t \in LaterTimes : Seek(t)
    \/ Seeked
    \/ \E t \in LaterTimes : TimeAdvance(t)
    \/ EndOfMedia
    \/ \E id \in RafIds : AnimationFrame(id)
    \/ ClickDownload
    \/ \E i \in ExportIds : PlayResolved(i)
    \/ ExportFrame
    \/ \E i \in ExportIds : RecorderError(i)
    \/ \E i \in ExportIds : RecorderStop(i)

ExportLaterSpec == ExportInit /\ [][ExportLaterNext]_vars

ExportRunning == downloadDisabled /\ \E i \in ExportIds : exports[i].used

(* C13: while an export is running (from the click that starts it until the   *)
(* button is enabled again) no step appends a hit to the ledger.              *)
C13_NoDetectionDuringExport ==
    [][ExportRunning => Len(bassHits') = Len(bassHits)]_vars

\* ------------------------------------------------- bass energy estimator
(***************************************************************************)
(* EstimateSpec: the arithmetic of processFrame that turns a frequency     *)
(* snapshot into the stored energy, for every snapshot, number of bins and *)
(* sample rate of the sets below.  The average is kept as a fraction       *)
(* num/den; divisions are exact, as they are for these operands in         *)
(* floating point.                                                         *)
(***************************************************************************)
BASS_FREQ_MIN == 20
BASS_FREQ_MAX == 140

MaxBins == 4
BinCounts == 1..MaxBins
SampleRates == {40, 100, 280, 560, 1120}
Bytes == {0, 128, 255}

Max(a, b) == IF a > b THEN a ELSE b

\* Math.floor(f / (nyquist / bufferLength)), with nyquist = sampleRate / 2
FloorBin(f, bufferLength, sampleRate) == (2 * f * bufferLength) \div sampleRate

\* Math.ceil(f / (nyquist / bufferLength))
CeilBin(f, bufferLength, sampleRate) ==
    (2 * f * bufferLength + sampleRate - 1) \div sampleRate

minBin(bufferLength, sampleRate) ==
    Max(0, FloorBin(BASS_FREQ_MIN, bufferLength, sampleRate))

maxBin(bufferLength, sampleRate) ==
    Min(bufferLength - 1, CeilBin(BASS_FREQ_MAX, bufferLength, sampleRate))

\* the loop of processFrame: dataArray[lo] + ... + dataArray[hi]
RECURSIVE SumBins(_, _, _)
SumBins(dataArray, lo, hi) ==
    IF lo > hi THEN 0 ELSE dataArray[lo] + SumBins(dataArray, lo + 1, hi)

\* the mutant of averageBassEnergy: divides by maxBin - minBin
averageOverWidth(dataArray, bufferLength, sampleRate) ==
    LET lo == minBin(bufferLength, sampleRate)
        hi == maxBin(bufferLength, sampleRate)
    IN IF hi > lo
       THEN [num |-> SumBins(dataArray, lo, hi), den |-> hi - lo]
       ELSE [num |-> 0, den |-> 1]

\* what processFrame stores in currentBassEnergyForVibration
averageBassEnergy(dataArray, bufferLength, sampleRate) ==
    LET lo == minBin(bufferLength, sampleRate)
        hi == maxBin(bufferLength, sampleRate)
    IN IF hi > lo
       THEN [num |-> SumBins(dataArray, lo, hi), den |-> hi - lo + 1]
       ELSE [num |-> 0, den |-> 1]

Estimate(dataArray, bufferLength, sampleRate) ==
    /\ currentBassEnergyForVibration' =
           averageBassEnergy(dataArray, bufferLength, sampleRate)
    /\ lastOp' = [op |-> "estimate", dataArray |-> dataArray,
                  bufferLength |-> bufferLength, sampleRate |-> sampleRate]
    /\ UNCHANGED <<player, events, audio, bassHits, lastPeakTime, acceptLog, loop,
                   exporter, transform>>

EstimateNext ==
    \E bufferLength \in BinCounts, sampleRate \in SampleRates :
        \E dataArray \in [0..(bufferLength - 1) -> Bytes] :
            Estimate(dataArray, bufferLength, sampleRate)

\* the browser's capabilities play no part in the arithmetic
EstimateInit == Init /\ hasRVFC /\ recorderSupported

EstimateSpec == EstimateInit /\ [][EstimateNext]_vars

\* the band as the claim states it, both ends clamped to [0, N-1]
ClaimedBin(x, bufferLength) == Max(0, Min(bufferLength - 1, x))

(* C14: for every snapshot, number of bins N and sample rate, with            *)
(* minBin = floor(20/(nyquist/N)) and maxBin = ceil(140/(nyquist/N)) clamped  *)
(* to [0, N-1], the stored energy is exactly 0 when maxBin <= minBin and is   *)
(* otherwise sum(snapshot[minBin..maxBin]) / (maxBin - minBin + 1), a value   *)
(* in [0, 255].                                                               *)
C14_EstimateIsBandAverage ==
    lastOp.op = "estimate" =>
        LET N == lastOp.bufferLength
            lo == ClaimedBin(FloorBin(BASS_FREQ_MIN, N, lastOp.sampleRate), N)
            hi == ClaimedBin(CeilBin(BASS_FREQ_MAX, N, lastOp.sampleRate), N)
            e == currentBassEnergyForVibration
        IN IF hi <= lo
           THEN e.num = 0
           ELSE /\ e.num = SumBins(lastOp.dataArray, lo, hi)
                /\ e.den = hi - lo + 1
                /\ 0 <= e.num
                /\ e.num <= 255 * e.den

\* a snapshot whose band is several bins wide with energy in them
C14_Witness ==
    /\ lastOp.op = "estimate"
    /\ maxBin(lastOp.bufferLength, lastOp.sampleRate)
         > minBin(lastOp.bufferLength, lastOp.sampleRate) + 1
    /\ minBin(lastOp.bufferLength, lastOp.sampleRate) > 0
    /\ currentBassEnergyForVibration.num > 0

\* ------------------------------------------------- discrete shake mode
(***************************************************************************)
(* DiscreteSpec: the discrete mode of the shake renderer, which script.js  *)
(* holds only as a comment in triggerShakeForCurrentTime.  The tick is     *)
(* written from section 4.3 of the specification: every unconsumed hit     *)
(* whose window [time, time + timeWindow) holds the current time emits     *)
(* "shake active" and is marked consumed.  It runs on timeupdate, over a   *)
(* loaded video with one hit in the ledger, while detection goes on.       *)
(***************************************************************************)
\* the mutant of ShakeDue: the consumed flag is not looked at
ShakeDueInWindow(hit, t) == t >= hit.time /\ t < hit.time + TimeWindow

ShakeDue(hit, t) ==
    /\ ~hit.shaken
    /\ t >= hit.time
    /\ t < hit.time + TimeWindow

DiscreteTick ==
    /\ Loaded
    /\ bassHits' = [n \in 1..Len(bassHits) |->
                      IF ShakeDue(bassHits[n], currentTime)
                      THEN [bassHits[n] EXCEPT !.shaken = TRUE]
                      ELSE bassHits[n]]
    /\ lastOp' = [op |-> "tick",
                  fired |-> {bassHits[n].time : n \in
                               {k \in 1..Len(bassHits) : ShakeDue(bassHits[k], currentTime)}}]
    /\ UNCHANGED <<player, events, audio, currentBassEnergyForVibration,
                   lastPeakTime, acceptLog, loop, exporter, transform>>

DiscreteInit ==
    /\ src = TRUE
    /\ paused = TRUE
    /\ seeking = FALSE
    /\ ended = FALSE
    /\ currentTime = 0
    /\ muted = FALSE
    /\ playbackRate = 1
    /\ transform = <<0, 0>>
    /\ newFrame = FALSE
    /\ hasRVFC = TRUE
    /\ recorderSupported = TRUE
    /\ metadataPending = FALSE
    /\ playEvent = FALSE
    /\ audioContext = "running"
    /\ analyser = TRUE
    /\ resumePending = {}
    /\ setupFailed = FALSE
    /\ bassHits = <<NewHit(100)>>
    /\ currentBassEnergyForVibration = 0
    /\ lastPeakTime = 100
    /\ acceptLog = <<100>>
    /\ animationFrameId = 0
    /\ rafQueue = {}
    /\ staleRaf = {}
    /\ downloadDisabled = FALSE
    /\ exports = [i \in ExportIds |-> FreeExport]
    /\ onseekedOwner = 0
    /\ lastOp = Op("other")

DiscreteNext ==
    \/ Play
    \/ OnPlay
    \/ Pause
    \/ \E t \in Times : Seek(t)
    \/ Seeked
    \/ \E t \in Times : TimeAdvance(t)
    \/ EndOfMedia
    \/ \E id \in RafIds : AnimationFrame(id)
    \/ DiscreteTick

DiscreteSpec == DiscreteInit /\ [][DiscreteNext]_vars

\* the hit at time t is in the ledger and consumed
Consumed(t) == \E n \in 1..Len(bassHits) : bassHits[n].time = t /\ bassHits[n].shaken

(* C15: in discrete mode a hit emits "shake active" only in the tick that     *)
(* marks it consumed, and a consumed hit stays consumed and never emits       *)
(* again, also on later ticks inside its window and after a backward seek:    *)
(* at most one "shake active" per hit and pass.                               *)
C15_ShakeAtMostOncePerHit ==
    [][\A t \in Times :
          /\ Consumed(t) =>
                /\ Consumed(t)'
                /\ lastOp'.op = "tick" => t \notin lastOp'.fired
          /\ (lastOp'.op = "tick" /\ t \in lastOp'.fired) =>
                (~Consumed(t) /\ Consumed(t)')]_vars

\* a tick inside the window of a hit consumed earlier, after a backward seek
\* (the hit at 1.0 was consumed, and the time is back inside its window)
C15_Witness ==
    /\ lastOp.op = "tick"
    /\ lastOp.fired = {}
    /\ Consumed(100)
    /\ Consumed(200)
    /\ currentTime = 105

(* C16: once setupAudioProcessing has failed for the loaded file, and until   *)
(* another file is chosen, no step appends a hit to the ledger and no step    *)
(* takes the export pipeline out of Idle (disables the download button).      *)
C16_SetupFailureDisablesDetectionAndExport ==
    [][(setupFailed /\ setupFailed') =>
          /\ Len(bassHits') <= Len(bassHits)
          /\ downloadDisabled' => downloadDisabled]_vars

\* ------------------------------------------------ energy normalisation
(***************************************************************************)
(* NormalizeSpec: applyLiveVibration on a video that is playing and not    *)
(* seeking, for every whole energy of 0..MaxByte a poll can have stored.   *)
(***************************************************************************)
MaxByte == 255

\* a playing video whose last poll stored a whole energy of 0..MaxByte
NormalizeInit ==
    /\ src = TRUE
    /\ paused = FALSE
    /\ seeking = FALSE
    /\ ended = FALSE
    /\ currentTime = 0
    /\ muted = FALSE
    /\ playbackRate = 1
    /\ transform = <<0, 0>>
    /\ newFrame = FALSE
    /\ hasRVFC = TRUE
    /\ recorderSupported = TRUE
    /\ metadataPending = FALSE
    /\ playEvent = FALSE
    /\ audioContext = "running"
    /\ analyser = TRUE
    /\ resumePending = {}
    /\ setupFailed = FALSE
    /\ bassHits = <<>>
    /\ currentBassEnergyForVibration \in {e * BandBins : e \in 0..MaxByte}
    /\ lastPeakTime = 0
    /\ acceptLog = <<>>
    /\ animationFrameId = 0
    /\ rafQueue = {}
    /\ staleRaf = {}
    /\ downloadDisabled = FALSE
    /\ exports = [i \in ExportIds |-> FreeExport]
    /\ onseekedOwner = 0
    /\ lastOp = Op("other")

Vibrate ==
    /\ applyLiveVibration(paused, seeking)
    /\ lastOp' = Op("vibrate")
    /\ UNCHANGED <<player, events, audio, detector, loop, exporter>>

NormalizeNext == Vibrate

NormalizeSpec == NormalizeInit /\ [][NormalizeNext]_vars

(* C17: for every energy of 0..255 the normalized energy NormNum/NormDen is   *)
(* 0 up to VIBRATION_ENERGY_THRESHOLD (38), (energy - 38)/152 between 38 and  *)
(* VIBRATION_ENERGY_MAX_SCALE (190), 1 from 190 on, so always in [0,1];       *)
(* energy 50 gives 12/152; every displacement drawn has magnitude at most     *)
(* VIBRATION_MAX_AMPLITUDE times the normalized energy, and what the tick     *)
(* sets is within VIBRATION_MAX_AMPLITUDE pixels.                             *)
C17_NormalizedEnergyRamp ==
    LET sum == currentBassEnergyForVibration
        lo == VIBRATION_ENERGY_THRESHOLD * BandBins
        hi == VIBRATION_ENERGY_MAX_SCALE * BandBins
    IN /\ NormNum(sum) >= 0
       /\ NormNum(sum) <= NormDen
       /\ sum <= lo => NormNum(sum) = 0
       /\ (sum > lo /\ sum <= hi) =>
             NormNum(sum) * (hi - lo) = (sum - lo) * NormDen
       /\ sum >= hi => NormNum(sum) = NormDen
       /\ sum = 50 * BandBins => NormNum(sum) * 152 = 12 * NormDen
       /\ \A k \in RandomDraws :
             Abs(DispNum(k, sum)) * NormDen
                 <= VIBRATION_MAX_AMPLITUDE * NormNum(sum) * DispDen
       /\ lastOp.op = "vibrate" =>
             /\ Abs(transform[1]) <= 100 * VIBRATION_MAX_AMPLITUDE
             /\ Abs(transform[2]) <= 100 * VIBRATION_MAX_AMPLITUDE
             /\ NormNum(sum) = 0 => transform = <<0, 0>>

\* the tick has displaced the video at energy 50
C17_Witness ==
    /\ lastOp.op = "vibrate"
    /\ currentBassEnergyForVibration = 50 * BandBins
    /\ transform # <<0, 0>>

\* ------------------------------------------------- the effect of a poll
\* the three tests of the claim, written out on the state the poll starts in
PollConditions(sum) ==
    /\ sum > PEAK_THRESHOLD * BandBins
    /\ currentTime - lastPeakTime > MIN_PEAK_INTERVAL
    /\ \A n \in 1..Len(bassHits) :
          2 * Abs(bassHits[n].time - currentTime) >= MIN_PEAK_INTERVAL

\* hits is old with exactly one entry added, of time t
OneMoreAt(old, hits, t) ==
    /\ Len(hits) = Len(old) + 1
    /\ \E n \in 1..Len(hits) :
          /\ hits[n] = NewHit(t)
          /\ \A m \in 1..Len(old) : old[m] = hits[IF m < n THEN m ELSE m + 1]

(* C18: a poll (a run of processFrame past its early return) appends exactly  *)
(* one hit of time currentTime and sets lastPeakTime to currentTime if the    *)
(* energy is above PEAK_THRESHOLD, currentTime - lastPeakTime is above        *)
(* MIN_PEAK_INTERVAL and no ledger entry is within MIN_PEAK_INTERVAL/2 of     *)
(* currentTime; otherwise it leaves the ledger and lastPeakTime as they were. *)
C18_PollEffect ==
    [][lastOp'.op = "processFrame" =>
          IF PollConditions(currentBassEnergyForVibration')
          THEN /\ OneMoreAt(bassHits, bassHits', currentTime)
               /\ lastPeakTime' = currentTime
          ELSE /\ bassHits' = bassHits
               /\ lastPeakTime' = lastPeakTime]_vars

\* energy 200 at 1.0 s has been appended to a ledger that held nothing
C18_Witness ==
    /\ lastOp.op = "processFrame"
    /\ currentBassEnergyForVibration = 200 * BandBins
    /\ currentTime = 100
    /\ bassHits = <<NewHit(100)>>
    /\ lastPeakTime = 100

\* -------------------------------------------- lastPeakTime and the ledger
(* C19: lastPeakTime is 0 while the ledger is empty and otherwise the         *)
(* greatest hit time of the ledger; hits were accepted in strictly increasing *)
(* order of time; every hit time is above MIN_PEAK_INTERVAL; and a step that  *)
(* adds a hit (so also one after a backward seek or a replay) is taken at a   *)
(* currentTime above lastPeakTime + MIN_PEAK_INTERVAL.                        *)
C19_LastPeakIsLatestHit ==
    /\ [](/\ bassHits = <<>> => lastPeakTime = 0
          /\ bassHits # <<>> =>
                /\ \E n \in 1..Len(bassHits) : bassHits[n].time = lastPeakTime
                /\ \A n \in 1..Len(bassHits) : bassHits[n].time <= lastPeakTime
          /\ \A i, j \in 1..Len(acceptLog) : i < j => acceptLog[i] < acceptLog[j]
          /\ \A n \in 1..Len(bassHits) : bassHits[n].time > MIN_PEAK_INTERVAL)
    /\ [][Len(bassHits') > Len(bassHits) =>
             currentTime > lastPeakTime + MIN_PEAK_INTERVAL]_vars

\* a loud poll behind the last peak, after a backward seek or a replay, added nothing
C19_Witness ==
    /\ lastOp.op = "processFrame"
    /\ AverageAbove(currentBassEnergyForVibration, PEAK_THRESHOLD)
    /\ bassHits # <<>>
    /\ currentTime + MIN_PEAK_INTERVAL < bassHits[1].time
    /\ lastPeakTime = bassHits[Len(bassHits)].time

\* --------------------------------------------- the duplicate-suppression test
\* some ledger entry is within MIN_PEAK_INTERVAL/2 of t, the bound included
EntryWithinHalfInterval(t) ==
    \E n \in 1..Len(bassHits) : 2 * Abs(bassHits[n].time - t) <= MIN_PEAK_INTERVAL

(* C20: in every reachable state where currentTime passes the rate-limit test *)
(* no ledger entry is within MIN_PEAK_INTERVAL/2 of currentTime, and a poll   *)
(* whose energy is above PEAK_THRESHOLD and that passes the rate-limit test   *)
(* adds its hit: the duplicate test never rejects it.                         *)
C20_DuplicateTestNeverDecides ==
    /\ [](RateLimitOk(currentTime, lastPeakTime) => ~EntryWithinHalfInterval(currentTime))
    /\ [][(/\ lastOp'.op = "processFrame"
           /\ AverageAbove(currentBassEnergyForVibration', PEAK_THRESHOLD)
           /\ RateLimitOk(currentTime, lastPeakTime))
          => /\ ~EntryWithinHalfInterval(currentTime)
             /\ Len(bassHits') = Len(bassHits) + 1
             /\ lastPeakTime' = currentTime]_vars

\* a loud poll past the rate limit has added a second hit to the ledger
C20_Witness ==
    /\ lastOp.op = "processFrame"
    /\ AverageAbove(currentBassEnergyForVibration, PEAK_THRESHOLD)
    /\ Len(bassHits) = 2
    /\ bassHits[2].time = currentTime
    /\ lastPeakTime = currentTime
    /\ bassHits[2].time - bassHits[1].time > MIN_PEAK_INTERVAL

\* ------------------------------------------------ one loop at a time
(* C21: during an export, whatever the order of the seeked event, the         *)
(* resolution of videoPlayer.play() and seeks to time 0, no export has more   *)
(* than one scheduled invocation of processFrameForDownload pending.          *)
C21_OneExportLoop ==
    \A i \in ExportIds : exports[i].frameCb <= 1

(* C22: at most one invocation of processFrame is scheduled at any time, and  *)
(* it is the one animationFrameId names; a scheduled invocation that runs     *)
(* while the video is paused or ended or the audio context is not running     *)
(* schedules nothing, so no invocation is left scheduled.                     *)
C22_OneDetectionLoop ==
    /\ [](/\ Cardinality(rafQueue) <= 1
          /\ rafQueue \subseteq {animationFrameId})
    /\ [][\A id \in RafIds :
             (AnimationFrame(id) /\ (paused \/ ended \/ audioContext # "running"))
                => (rafQueue' = {} /\ animationFrameId' = 0)]_vars

\* play, pause and play again before a frame: the play event is about to call
\* analyseAudio while the invocation scheduled by the first play is still pending
C22_Witness ==
    /\ playEvent
    /\ ~paused
    /\ analyser
    /\ audioContext = "running"
    /\ animationFrameId # 0
    /\ rafQueue = {animationFrameId}
====
